---- MODULE Spec2Model ----
(***************************************************************************)
(* Model of xm_os_chdir (core/src/xmake/os/chdir.c), the Lua binding of    *)
(* os.chdir: it extracts argument 1 as a C string, hands it to             *)
(* tb_directory_current_set and pushes the boolean it gets back.           *)
(*                                                                         *)
(* The function is split into its three observable steps so that calls of  *)
(* several threads can interleave around the only shared state, the        *)
(* process-wide current working directory:                                 *)
(*   Call          lines 42-47   checks and argument extraction            *)
(*   DirectorySet  line  50      the OS primitive (inner call)             *)
(*   Push          lines 50-53   lua_pushboolean and "return 1"            *)
(* Resume is the calling script taking the results and calling again.      *)
(***************************************************************************)
EXTENDS Integers, Sequences, FiniteSets, TLC

\* ------------------------------------------------------------------ bounds
MaxCalls == 3

\* ------------------------------------------------------------- the threads
Threads == {"T1", "T2"}

\* --------------------------------------------------------- the file system
\* The host file system the OS primitive looks at: what each path names.
Tmp      == "/tmp"
Home     == "/home"
NoSuch   == "/this/path/does/not/exist"
Passwd   == "/etc/passwd"
Private  == "/private"
Empty    == ""
Root     == "/"

Kind(p) ==
  CASE p = Root    -> "dir"
    [] p = Tmp     -> "dir"
    [] p = Home    -> "dir"
    [] p = Passwd  -> "file"
    [] p = Private -> "noaccess"
    [] OTHER       -> "missing"

IsDir(p) == Kind(p) = "dir"

InitialCwd == Root

\* --------------------------------------------------------- C string values
\* A tb_char_t const* : either NULL or a pointer to a (possibly empty) string.
NULL   == [null |-> TRUE,  str |-> ""]
Ptr(s) == [null |-> FALSE, str |-> s]

\* ------------------------------------------------------- script arguments
\* The value the script left at stack index 1.
\*   none/nil/table : no string can be made of it
\*   string         : a Lua string
\*   number         : a Lua number (convertible to a string)
\*   nullstr        : a value whose extraction yields a null pointer, the
\*                    case the guard at line 47 is written for
Arg(ty, s, n) == [type |-> ty, s |-> s, n |-> n]

StringArgs == {Arg("string", s, 0) : s \in {Tmp, Home, NoSuch, Passwd, Private, Empty}}
NumberArgs == {Arg("number", "", n) : n \in {7}}
BadArgs    == {Arg(ty, "", 0) : ty \in {"none", "table"}}
NullArgs   == {Arg("nullstr", "", 0)}
Args       == StringArgs \cup NumberArgs \cup BadArgs \cup NullArgs
NoArg      == Arg("none", "", 0)

\* luaL_checkstring(lua, 1): raises a Lua error (does not return) unless the
\* value is a string or a number; a number is converted to its decimal text.
luaL_checkstring(a) ==
  CASE a.type = "string"  -> [raised |-> FALSE, path |-> Ptr(a.s)]
    [] a.type = "number"  -> [raised |-> FALSE, path |-> Ptr(ToString(a.n))]
    [] a.type = "nullstr" -> [raised |-> FALSE, path |-> NULL]
    [] OTHER              -> [raised |-> TRUE,  path |-> NULL]

\* tb_directory_current_set(path) run while the working directory is cur:
\* succeeds exactly when path names an accessible directory and then makes it
\* the working directory; otherwise leaves the working directory alone.
tb_directory_current_set(cur, path) ==
  IF ~path.null /\ IsDir(path.str)
    THEN [ok |-> TRUE,  cwd |-> path.str]
    ELSE [ok |-> FALSE, cwd |-> cur]

\* ------------------------------------------------- the steps of xm_os_chdir
\* Variant: the lua check inverted.
LuaCheckInverted(lua) == ~lua

\* tb_assert_and_check_return_val(lua, 0): go on only with a lua state
\* (the check part of the macro; its value 0 is BailCount).
LuaCheck(lua) == lua

\* Variants: the path check dropped, the path check inverted.
PathCheckNone(path) == TRUE
PathCheckInverted(path) == path.null

\* tb_check_return_val(path, 0): go on only with a non-null path.
PathCheck(path) == ~path.null

\* Variants: the result negated, a constant pushed whatever the result.
PushedValueInverted(ok) == ~ok
PushedValueAlwaysTrue(ok) == TRUE
PushedValueAlwaysFalse(ok) == FALSE

\* lua_pushboolean(lua, <result of the primitive>): the value pushed.
PushedValue(ok) == ok

\* "return 1" after the push.
OkCount == 1

\* Variant: a bail-out that reports one result.
BailCountOne == OkCount

\* The value of "return 0" of the two bail-outs.
BailCount == 0

VARIABLES
  cwd,      \* the process-wide current working directory
  active,   \* the threads that run scripts in this process
  pc,       \* per thread: "idle", "set", "push", "done", "raised"
  lua,      \* per thread: the lua state pointer is non-null
  arg,      \* per thread: the script value at index 1
  path,     \* per thread: the local variable path
  ok,       \* per thread: what tb_directory_current_set returned
  pushed,   \* per thread: the values this call pushed on the script stack
  ret,      \* per thread: the function's return value (when pc = "done")
  oscalls,  \* per thread: invocations of the primitive by this call
  pre,      \* per thread: the working directory when the call began
  log,      \* the primitive's invocations, in the order they ran
  at,       \* per thread: index in log of this call's invocation (0: none)
  ncalls    \* calls begun so far

vars == <<cwd, active, pc, lua, arg, path, ok, pushed, ret, oscalls, pre, log, at, ncalls>>

InitWith(ts) ==
  /\ cwd = InitialCwd
  /\ active = ts
  /\ pc = [t \in Threads |-> "idle"]
  /\ lua = [t \in Threads |-> TRUE]
  /\ arg = [t \in Threads |-> NoArg]
  /\ path = [t \in Threads |-> NULL]
  /\ ok = [t \in Threads |-> FALSE]
  /\ pushed = [t \in Threads |-> <<>>]
  /\ ret = [t \in Threads |-> 0]
  /\ oscalls = [t \in Threads |-> 0]
  /\ pre = [t \in Threads |-> InitialCwd]
  /\ log = <<>>
  /\ at = [t \in Threads |-> 0]
  /\ ncalls = 0

\* One script thread: calls follow one another.
Init == InitWith({"T1"})

\* Several script threads of the same process, no synchronization.
InitConc == InitWith(Threads)

\* Lines 40-47: entry, the lua check, the extraction and the path check.
Call(t) ==
  /\ t \in active
  /\ pc[t] = "idle"
  /\ ncalls < MaxCalls
  /\ \E l \in BOOLEAN, a \in Args :
       LET r == luaL_checkstring(a) IN
       /\ lua' = [lua EXCEPT ![t] = l]
       /\ arg' = [arg EXCEPT ![t] = IF l THEN a ELSE NoArg]
       /\ IF ~LuaCheck(l)
            THEN /\ pc' = [pc EXCEPT ![t] = "done"]
                 /\ ret' = [ret EXCEPT ![t] = BailCount]
                 /\ path' = path
            ELSE IF r.raised
            THEN /\ pc' = [pc EXCEPT ![t] = "raised"]
                 /\ UNCHANGED <<ret, path>>
            ELSE IF ~PathCheck(r.path)
            THEN /\ pc' = [pc EXCEPT ![t] = "done"]
                 /\ ret' = [ret EXCEPT ![t] = BailCount]
                 /\ path' = [path EXCEPT ![t] = r.path]
            ELSE /\ pc' = [pc EXCEPT ![t] = "set"]
                 /\ path' = [path EXCEPT ![t] = r.path]
                 /\ ret' = ret
  /\ pre' = [pre EXCEPT ![t] = cwd]
  /\ ncalls' = ncalls + 1
  /\ UNCHANGED <<cwd, active, ok, pushed, oscalls, log, at>>

\* Line 50, inner call: tb_directory_current_set(path).
DirectorySet(t) ==
  /\ t \in active
  /\ pc[t] = "set"
  /\ LET r == tb_directory_current_set(cwd, path[t]) IN
       /\ cwd' = r.cwd
       /\ ok' = [ok EXCEPT ![t] = r.ok]
       /\ log' = Append(log, [t |-> t, path |-> path[t], ok |-> r.ok,
                              before |-> cwd, after |-> r.cwd,
                              racing |-> {u \in Threads \ {t} : pc[u] = "set"},
                              returned |-> FALSE, res |-> FALSE])
  /\ at' = [at EXCEPT ![t] = Len(log) + 1]
  /\ oscalls' = [oscalls EXCEPT ![t] = @ + 1]
  /\ pc' = [pc EXCEPT ![t] = "push"]
  /\ UNCHANGED <<active, lua, arg, path, pushed, ret, pre, ncalls>>

\* Lines 50-53: lua_pushboolean of the result, then return 1.
Push(t) ==
  /\ t \in active
  /\ pc[t] = "push"
  /\ pushed' = [pushed EXCEPT ![t] = Append(@, PushedValue(ok[t]))]
  /\ ret' = [ret EXCEPT ![t] = OkCount]
  /\ log' = [log EXCEPT ![at[t]].returned = TRUE,
                        ![at[t]].res = PushedValue(ok[t])]
  /\ pc' = [pc EXCEPT ![t] = "done"]
  /\ UNCHANGED <<cwd, active, lua, arg, path, ok, oscalls, pre, at, ncalls>>

\* The script takes the results (or handles the error) and goes on.
Resume(t) ==
  /\ t \in active
  /\ pc[t] \in {"done", "raised"}
  /\ pc' = [pc EXCEPT ![t] = "idle"]
  /\ lua' = [lua EXCEPT ![t] = TRUE]
  /\ arg' = [arg EXCEPT ![t] = NoArg]
  /\ path' = [path EXCEPT ![t] = NULL]
  /\ ok' = [ok EXCEPT ![t] = FALSE]
  /\ pushed' = [pushed EXCEPT ![t] = <<>>]
  /\ ret' = [ret EXCEPT ![t] = 0]
  /\ oscalls' = [oscalls EXCEPT ![t] = 0]
  /\ at' = [at EXCEPT ![t] = 0]
  /\ UNCHANGED <<cwd, active, pre, log, ncalls>>

Next ==
  \/ \E t \in Threads : Call(t)
  \/ \E t \in Threads : DirectorySet(t)
  \/ \E t \in Threads : Push(t)
  \/ \E t \in Threads : Resume(t)

Spec == Init /\ [][Next]_vars

SpecConc == InitConc /\ [][Next]_vars

\* ------------------------------------------------------------- properties
EmptyArg == Arg("string", Empty, 0)

\* The argument lets no usable path through: nothing there, not convertible,
\* or a null pointer extracted.
InvalidArg(a) == a.type \in {"none", "table", "nullstr"}

RECURSIVE LastReturnedTrue(_)
\* Path of the most recent call of l that returned true, else the initial one.
LastReturnedTrue(l) ==
  IF l = <<>> THEN InitialCwd
  ELSE IF l[Len(l)].returned /\ l[Len(l)].res THEN l[Len(l)].path.str
  ELSE LastReturnedTrue(SubSeq(l, 1, Len(l) - 1))

RECURSIVE LastWriter(_)
\* Path of the most recent invocation of the primitive in l that succeeded.
LastWriter(l) ==
  IF l = <<>> THEN InitialCwd
  ELSE IF l[Len(l)].ok THEN l[Len(l)].path.str
  ELSE LastWriter(SubSeq(l, 1, Len(l) - 1))

\* C1: whenever a call reached the OS primitive and returned, the one boolean
\* it handed to the script is the primitive's own result, unchanged.
C1_ResultIsPrimitiveResult ==
  \A t \in Threads :
    (pc[t] = "done" /\ oscalls[t] = 1) =>
      /\ pushed[t] = <<ok[t]>>
      /\ log[at[t]].returned
      /\ log[at[t]].ok = ok[t]
      /\ log[at[t]].res = log[at[t]].ok

C1_Witness ==
  \E i, j \in DOMAIN log :
    /\ log[i].returned /\ log[i].ok /\ log[i].res
    /\ log[j].returned /\ ~log[j].ok /\ ~log[j].res

\* C2: a call with a path that is not an existing, accessible directory
\* returns false and leaves the working directory as it was before the call.
C2_BadPathFalseAndUnchanged ==
  \A t \in Threads :
    (pc[t] = "done" /\ lua[t] /\ ~path[t].null /\ ~IsDir(path[t].str)) =>
      /\ ret[t] = 1
      /\ pushed[t] = <<FALSE>>
      /\ cwd = pre[t]

C2_Witness ==
  \E t \in Threads :
    /\ pc[t] = "done"
    /\ path[t] = Ptr(NoSuch)
    /\ pushed[t] = <<FALSE>>
    /\ cwd = pre[t]
    /\ cwd = Tmp

\* C3: a call with the path of an existing directory returns true, and the
\* working directory is that path afterwards.
C3_GoodPathTrueAndSet ==
  \A t \in Threads :
    (pc[t] = "done" /\ lua[t] /\ ~path[t].null /\ IsDir(path[t].str)) =>
      /\ ret[t] = 1
      /\ pushed[t] = <<TRUE>>
      /\ cwd = path[t].str

C3_Witness ==
  \E t \in Threads :
    /\ pc[t] = "done"
    /\ path[t] = Ptr(Tmp)
    /\ pushed[t] = <<TRUE>>
    /\ pre[t] = Home
    /\ cwd = Tmp

\* C4: with an empty string as the argument the OS primitive is not invoked;
\* and a call that got there with an empty string returns false.
C4_EmptyNotAttempted ==
  \A t \in Threads :
    (lua[t] /\ arg[t] = EmptyArg) =>
      /\ oscalls[t] = 0
      /\ pc[t] = "done" => pushed[t] \in {<<>>, <<FALSE>>}

\* C5: when the caller supplies no valid path argument (missing, not
\* convertible to a string, or a null pointer extracted), the primitive is
\* not invoked and the working directory stays as it was.
C5_InvalidArgNotAttempted ==
  \A t \in Threads :
    (pc[t] # "idle" /\ lua[t] /\ InvalidArg(arg[t])) =>
      /\ pc[t] \in {"done", "raised"}
      /\ oscalls[t] = 0
      /\ at[t] = 0
      /\ pushed[t] = <<>>
      /\ cwd = pre[t]

C5_Witness ==
  \E t \in Threads :
    /\ lua[t]
    /\ arg[t].type = "table"
    /\ pc[t] = "raised"
    /\ oscalls[t] = 0
    /\ pushed[t] = <<>>
    /\ Len(log) = 1
    /\ pre[t] = Home
    /\ cwd = Home

\* C6: a failure of the OS primitive is neither thrown nor aborted on: the
\* call goes on to return normally, with one result value, the boolean false.
C6_FailureOnlyInResult ==
  \A t \in Threads :
    (oscalls[t] = 1 /\ ~ok[t]) =>
      /\ pc[t] \in {"push", "done"}
      /\ pc[t] = "done" => (ret[t] = 1 /\ pushed[t] = <<FALSE>>)

C6_Witness ==
  \E t \in Threads :
    /\ pc[t] = "done"
    /\ path[t] = Ptr(Private)
    /\ oscalls[t] = 1
    /\ ~ok[t]
    /\ ret[t] = 1
    /\ pushed[t] = <<FALSE>>

\* C7: with calls one after another, once no call is between the primitive
\* and its return, the working directory is the path of the most recent call
\* that returned true (the initial directory if none did); a call that
\* returned false did not alter it, and nothing alters it between calls.
C7_CwdIsLastSuccess ==
  /\ (\A t \in Threads : pc[t] # "push") => cwd = LastReturnedTrue(log)
  /\ \A i \in DOMAIN log :
       (log[i].returned /\ ~log[i].res) => log[i].after = log[i].before
  /\ \A i \in DOMAIN log :
       log[i].before = (IF i = 1 THEN InitialCwd ELSE log[i - 1].after)

C7_Witness ==
  /\ Len(log) = 3
  /\ log[1].returned /\ log[1].res /\ log[1].path = Ptr(Tmp)
  /\ log[2].returned /\ log[2].res /\ log[2].path = Ptr(Home)
  /\ log[3].returned /\ ~log[3].res
  /\ cwd = Home

\* C8: two calls in succession with the same existing directory p both
\* return true, and the working directory is p after each of them.
C8_Idempotent ==
  \A i \in DOMAIN log :
    (/\ i + 1 \in DOMAIN log
     /\ log[i].path = log[i + 1].path
     /\ IsDir(log[i].path.str)
     /\ log[i + 1].returned) =>
      /\ log[i].returned /\ log[i].res
      /\ log[i + 1].res
      /\ log[i].after = log[i].path.str
      /\ log[i + 1].after = log[i].path.str
      /\ cwd = log[i].path.str \/ i + 1 < Len(log)

C8_Witness ==
  \E i \in DOMAIN log :
    /\ i + 1 \in DOMAIN log
    /\ log[i].path = Ptr(Home)
    /\ log[i + 1].path = Ptr(Home)
    /\ log[i].returned /\ log[i].res
    /\ log[i + 1].returned /\ log[i + 1].res
    /\ cwd = Home

\* C9: with several threads calling at once, every call with an existing
\* directory returns true and the working directory is the path of the
\* invocation of the primitive that succeeded last (last writer wins).
C9_LastWriterWins ==
  /\ \A t \in Threads :
       (pc[t] = "done" /\ lua[t] /\ arg[t].type = "string" /\ IsDir(arg[t].s)) =>
         (ret[t] = 1 /\ pushed[t] = <<TRUE>>)
  /\ cwd = LastWriter(log)
  /\ (log # <<>> /\ \A i \in DOMAIN log : IsDir(log[i].path.str)) =>
       cwd = log[Len(log)].path.str

\* The hazard of C9: thread t has returned true for its path, while a call
\* of thread u that was under way at that time has since moved the working
\* directory somewhere else.
C9_Witness ==
  \E t, u \in Threads :
    /\ t # u
    /\ pc[t] = "done" /\ pushed[t] = <<TRUE>> /\ at[t] > 0
    /\ u \in log[at[t]].racing
    /\ at[u] > at[t]
    /\ log[at[u]].ok
    /\ pc[u] = "done" /\ pushed[u] = <<TRUE>>
    /\ cwd = path[u].str
    /\ cwd # path[t].str

\* C10: the return value matches the pushes: 1 exactly when the primitive
\* was invoked once and one boolean pushed, 0 exactly when the call bailed
\* out on a null lua state or a null path, with nothing pushed and the
\* primitive not invoked; the primitive is never invoked twice by one call.
C10_CountMatchesStack ==
  \A t \in Threads :
    /\ oscalls[t] <= 1
    /\ Len(pushed[t]) <= 1
    /\ pc[t] = "done" =>
         /\ ret[t] = 1 <=> (oscalls[t] = 1 /\ Len(pushed[t]) = 1)
         /\ ret[t] = 0 <=> (~lua[t] \/ path[t].null)
         /\ ret[t] = 0 => (pushed[t] = <<>> /\ oscalls[t] = 0)
         /\ ret[t] = Len(pushed[t])
    /\ pc[t] # "done" => pushed[t] = <<>>

C10_Witness ==
  \E t, u \in Threads :
    /\ pc[t] = "done" /\ ret[t] = 1 /\ Len(pushed[t]) = 1 /\ oscalls[t] = 1
    /\ pc[u] = "done" /\ ret[u] = 0 /\ ~lua[u] /\ pushed[u] = <<>>

TypeOK ==
  /\ cwd \in {Root, Tmp, Home}
  /\ active \subseteq Threads
  /\ \A t \in Threads :
       /\ pc[t] \in {"idle", "set", "push", "done", "raised"}
       /\ ret[t] \in {0, 1}
       /\ oscalls[t] \in 0..1
       /\ at[t] \in 0..Len(log)
  /\ ncalls \in 0..MaxCalls
====
